---------------------------- MODULE Spec2Model ----------------------------
(***************************************************************************)
(* State-machine model of yahoo_finance_hdd: one call of                   *)
(* YahooFinance.get_history / get_dividends / get_splits, i.e.             *)
(* Download.get_multiple_tickers, with the ExchangeCalendar it builds, the *)
(* ThreadPool(4) batch of _get_single_ticker calls and the merge loop.     *)
(*                                                                         *)
(* Representation of Python values                                         *)
(*   str            a sequence of one-character strings  <<"v","z">>       *)
(*   'yyyy-mm-dd'   a triple <<y, m, d>> (compared as the string is:       *)
(*                  lexicographically, field by field)                     *)
(*   DataFrame      [cols |-> sequence of column names,                    *)
(*                   rows |-> sequence of rows, a row the sequence of   *)
(*                           its cells in column order]                    *)
(*   NaN / None     the cells NaN and the name None                        *)
(***************************************************************************)
EXTENDS Integers, Sequences, FiniteSets, TLC

(***************************************************************************)
(* Bounds of the exploration.                                              *)
(***************************************************************************)
\* longest ticker list explored with every request shape
MaxTickers == 2
\* length of the one long batch (more tickers than 4 * pool width)
BigBatch == 17
\* constructions of a calendar by another request that may interleave
MaxOtherCalendars == 1
\* calendar runs: days a range may start after an anchor day, and its longest
\* length in days
MaxStartShift == 6
MaxSpan == 32

(***************************************************************************)
(* Program constants.                                                      *)
(***************************************************************************)
\* ThreadPool(4)
PoolWidth == 4
\* multiprocessing.pool: chunksize = ceil(len / (len(pool) * 4))
ChunkFactor == 4

\* "no exception"
None == "None"
\* cells: a date is <<y, m, d>>, a value <<"v", symbol, field, day>>
NaN == <<"NaN">>
NULL == <<"null">>
\* index.name of a frame nobody named
NoName == <<"None">>

(***************************************************************************)
(* Dates.  strptime / Timestamp parsing of 'yyyy-mm-dd' gives a day number *)
(* (days since 1970-01-01), strftime('%Y-%m-%d') the triple back.          *)
(***************************************************************************)
DaysFromCivil(date) ==
    LET y0  == date[1]
        m   == date[2]
        d   == date[3]
        y   == IF m <= 2 THEN y0 - 1 ELSE y0
        era == y \div 400
        yoe == y - era * 400
        mp  == IF m > 2 THEN m - 3 ELSE m + 9
        doy == (153 * mp + 2) \div 5 + d - 1
        doe == yoe * 365 + yoe \div 4 - yoe \div 100 + doy
    IN  era * 146097 + doe - 719468

Strftime(n) ==
    LET z   == n + 719468
        era == z \div 146097
        doe == z - era * 146097
        yoe == (doe - doe \div 1460 + doe \div 36524 - doe \div 146096) \div 365
        doy == doe - (365 * yoe + yoe \div 4 - yoe \div 100)
        mp  == (5 * doy + 2) \div 153
        d   == doy - (153 * mp + 2) \div 5 + 1
        m   == IF mp < 10 THEN mp + 3 ELSE mp - 9
        y   == yoe + era * 400
    IN  << IF m <= 2 THEN y + 1 ELSE y, m, d >>

\* strftime('%m'): the month label of a day
StrftimeMonth(n) == Strftime(n)[2]

\* Date.convert_to_unix: strptime, then mktime (the process runs in UTC)
convert_to_unix(date) == DaysFromCivil(date) * 86400

\* order of two 'yyyy-mm-dd' strings
DateLess(a, b) ==
    \/ a[1] < b[1]
    \/ a[1] = b[1] /\ a[2] < b[2]
    \/ a[1] = b[1] /\ a[2] = b[2] /\ a[3] < b[3]

\* Weekly.day_of_week_num: (days since the epoch - 4) % 7, Monday = 0.  Its
\* argument is an element of the strftime array, a numpy string, which
\* astype('datetime64[D]') parses
day_of_week_num(date) == (DaysFromCivil(date) - 4) % 7

(***************************************************************************)
(* Strings.                                                                *)
(***************************************************************************)
Lower == <<"a","b","c","d","e","f","g","h","i","j","k","l","m",
           "n","o","p","q","r","s","t","u","v","w","x","y","z">>
Upper == <<"A","B","C","D","E","F","G","H","I","J","K","L","M",
           "N","O","P","Q","R","S","T","U","V","W","X","Y","Z">>

UpperChar(c) ==
    IF \E i \in 1..26 : Lower[i] = c
    THEN Upper[CHOOSE i \in 1..26 : Lower[i] = c]
    ELSE c

\* str.upper()
StrUpper(s) == [i \in 1..Len(s) |-> UpperChar(s[i])]

\* the text of a str, for column names and URLs
RECURSIVE Text(_)
Text(s) == IF s = <<>> THEN "" ELSE s[1] \o Text(Tail(s))

(***************************************************************************)
(* pandas_market_calendars, as far as ExchangeCalendar.get_daterange uses  *)
(* it: the exchanges the docstring lists, a session on every weekday that  *)
(* is no holiday of the exchange, and schedule() refusing start > end.     *)
(***************************************************************************)
Exchanges == {"BMF", "CFE", "CME", "CBOT", "COMEX", "NYMEX", "EUREX", "ICE",
              "ICEUS", "NYFE", "JPX", "LSE", "NYSE", "stock", "NASDAQ",
              "BATS", "OSE", "SIX", "TSX", "TSXV", "SSE", "HKEX"}

\* closures inside the explored date ranges
Holidays(exchange) ==
    CASE exchange \in {"NYSE", "stock", "NASDAQ", "BATS"} ->
            {<<2010,11,25>>, <<2010,12,24>>, <<2011,2,21>>, <<2001,9,3>>,
             <<2001,9,11>>, <<2001,9,12>>, <<2001,9,13>>, <<2001,9,14>>}
      [] exchange = "LSE" -> {<<2010,12,27>>, <<2010,12,28>>}
      [] OTHER -> {}

IsSession(exchange, n) ==
    /\ (n - 4) % 7 < 5
    /\ Strftime(n) \notin Holidays(exchange)

RECURSIVE Sessions(_, _, _)
Sessions(exchange, a, b) ==
    IF a > b THEN <<>>
    ELSE (IF IsSession(exchange, a) THEN <<a>> ELSE <<>>)
         \o Sessions(exchange, a + 1, b)

\* ExchangeCalendar.get_daterange: the error it raises, or None
get_daterange_error(start, end, exchange) ==
    IF exchange \notin Exchanges THEN "RuntimeError"
    ELSE IF DaysFromCivil(start) > DaysFromCivil(end) THEN "ValueError"
    ELSE None

\* ExchangeCalendar.get_daterange: the DatetimeIndex of sessions (day numbers)
get_daterange(start, end, exchange) ==
    Sessions(exchange, DaysFromCivil(start), DaysFromCivil(end))

(***************************************************************************)
(* Sequences.                                                              *)
(***************************************************************************)
RECURSIVE SelectIdx(_, _, _)
\* the elements s[i], i = from..Len(s), with keep[i], in order
SelectIdx(s, from, keep) ==
    IF from > Len(s) THEN <<>>
    ELSE (IF keep[from] THEN <<s[from]>> ELSE <<>>) \o SelectIdx(s, from + 1, keep)

RECURSIVE Flatten(_)
Flatten(ss) == IF ss = <<>> THEN <<>> ELSE Head(ss) \o Flatten(Tail(ss))

\* first position of x in s, 0 when absent
IndexOf(s, x) ==
    IF \E i \in DOMAIN s : s[i] = x
    THEN CHOOSE i \in DOMAIN s : s[i] = x /\ \A j \in 1..(i-1) : s[j] # x
    ELSE 0

(***************************************************************************)
(* Frequency reductions of the daily DatetimeIndex.                        *)
(***************************************************************************)
\* date_range.strftime('%Y-%m-%d')
DailyStrings(dr) == [i \in 1..Len(dr) |-> Strftime(dr[i])]

\* date_range.strftime('%m')
MonthStrings(dr) == [i \in 1..Len(dr) |-> StrftimeMonth(dr[i])]

\* a _get_weekly_dates that compares each day with the day before it and takes
\* the first day, which has none, for the start of a week
get_weekly_dates_from_first(daily_dr) ==
    LET keep == [i \in 1..Len(daily_dr) |->
                    \/ i = 1
                    \/ day_of_week_num(daily_dr[i - 1]) > day_of_week_num(daily_dr[i])]
    IN  SelectIdx(daily_dr, 1, keep)

\* a _get_weekly_dates that keeps the earlier day of a pair
get_weekly_dates_earlier(daily_dr) ==
    LET keep == [i \in 1..Len(daily_dr) |->
                    /\ i < Len(daily_dr)
                    /\ day_of_week_num(daily_dr[i]) > day_of_week_num(daily_dr[i + 1])]
    IN  SelectIdx(daily_dr, 1, keep)

\* Weekly._get_weekly_dates: zip(daily_dr, daily_dr[1:]) names the earlier
\* day current_date and the later one previous_date, and keeps the later
get_weekly_dates(daily_dr) ==
    LET keep == [i \in 2..Len(daily_dr) |->
                    day_of_week_num(daily_dr[i - 1]) > day_of_week_num(daily_dr[i])]
    IN  SelectIdx(daily_dr, 2, keep)

\* a _get_monthly_dates that zips daily_dr instead of daily_dr[1:]
get_monthly_dates_unshifted(daily_dr, monthly_dr) ==
    LET n    == IF Len(daily_dr) < Len(monthly_dr) THEN Len(daily_dr) ELSE Len(monthly_dr)
        keep == [i \in 1..n |-> i < n /\ monthly_dr[i + 1] # monthly_dr[i]]
    IN  SelectIdx(SubSeq(daily_dr, 1, n), 1, keep)

\* Monthly._get_monthly_dates: z of zip(monthly_dr, monthly_dr[1:], daily_dr[1:])
\* (zip stops with the shorter of its arguments)
get_monthly_dates(daily_dr, monthly_dr) ==
    LET n    == IF Len(daily_dr) < Len(monthly_dr) THEN Len(daily_dr) ELSE Len(monthly_dr)
        keep == [i \in 2..n |-> monthly_dr[i] # monthly_dr[i - 1]]
    IN  SelectIdx(SubSeq(daily_dr, 1, n), 2, keep)

\* pd.DataFrame(data=..., columns={'Date'})
DateFrame(dates) == [cols |-> <<"Date">>, rows |-> [i \in 1..Len(dates) |-> <<dates[i]>>]]

Intervals == {"d", "w", "m"}

\* ExchangeCalendar.get_dates, reading the class attribute date_range; past the
\* three returns the method falls off its end (OTHER: no frame)
get_dates(dr, time_interval) ==
    CASE time_interval = "d" -> DateFrame(DailyStrings(dr))
      [] time_interval = "w" -> DateFrame(get_weekly_dates(DailyStrings(dr)))
      [] time_interval = "m" -> DateFrame(get_monthly_dates(DailyStrings(dr), MonthStrings(dr)))
      [] OTHER -> [cols |-> <<>>, rows |-> <<>>]

\* the interval check a call without the assert would make: none
IntervalRejectedNever(time_interval) == FALSE

\* line 91: assert time_interval in ['d', 'w', 'm']
IntervalRejected(time_interval) == time_interval \notin Intervals

(***************************************************************************)
(* DataFrames.  A row is the sequence of its cells, in column order.       *)
(***************************************************************************)
\* pd.read_csv(StringIO(text), error_bad_lines=False): the first line is the
\* header, a line with too many fields is skipped, a short one is padded
read_csv(text) ==
    LET header == text[1]
        w      == Len(header)
        ok     == [i \in 2..Len(text) |-> Len(text[i]) <= w]
        lines  == SelectIdx(text, 2, ok)
        pad(l) == [j \in 1..w |-> IF j <= Len(l) THEN l[j] ELSE NaN]
    IN  [cols |-> header, rows |-> [i \in 1..Len(lines) |-> pad(lines[i])]]

\* .replace('null', np.nan)
replace_null(df) ==
    [df EXCEPT !.rows = [i \in 1..Len(df.rows) |->
        [j \in 1..Len(df.rows[i]) |-> IF df.rows[i][j] = NULL THEN NaN ELSE df.rows[i][j]]]]

\* .dropna(): a row with any NaN goes
dropna_any(df) ==
    LET keep == [i \in 1..Len(df.rows) |-> \A j \in 1..Len(df.rows[i]) : df.rows[i][j] # NaN]
    IN  [df EXCEPT !.rows = SelectIdx(df.rows, 1, keep)]

\* result[self.params.columns] raises KeyError
ProjectFails(df, columns) == \E k \in 1..Len(columns) : IndexOf(df.cols, columns[k]) = 0

\* result[self.params.columns]
Project(df, columns) ==
         [cols |-> columns,
          rows |-> [i \in 1..Len(df.rows) |->
                     [k \in 1..Len(columns) |-> df.rows[i][IndexOf(df.cols, columns[k])]]]]

\* column + "_" + self.data_df.index.name
ColumnName(column, name) == column \o "_" \o Text(name)

RECURSIVE RenameFrom(_, _, _, _)
\* the rename loop from position k of the columns it iterates over
RenameFrom(cols, orig, k, name) ==
    IF k > Len(orig) THEN cols
    ELSE IF orig[k] = "Date" THEN RenameFrom(cols, orig, k + 1, name)
    ELSE RenameFrom([j \in 1..Len(cols) |->
                        IF cols[j] = orig[k] THEN ColumnName(orig[k], name) ELSE cols[j]],
                    orig, k + 1, name)

\* the rename loop raises TypeError (str + None) when a data column meets an
\* index without a name
RenameFails(df, name) == name = NoName /\ \E k \in 1..Len(df.cols) : df.cols[k] # "Date"

\* the rename loop of get_multiple_tickers
RenameColumns(df, name) == [df EXCEPT !.cols = RenameFrom(df.cols, df.cols, 1, name)]

\* pd.merge(..., on='Date') raises KeyError
MergeFails(left, right) == IndexOf(left.cols, "Date") = 0 \/ IndexOf(right.cols, "Date") = 0

\* pd.merge(left, right, how='outer', on='Date'): the rows of the left join,
\* then the rows of right whose date no row of left has
MergeOuter(left, right) ==
    LET lk == IndexOf(left.cols, "Date")
        rk == IndexOf(right.cols, "Date")
        notKey == [j \in 1..Len(right.cols) |-> j # rk]
        only == [i \in 1..Len(right.rows) |->
                    \A q \in 1..Len(left.rows) : left.rows[q][lk] # right.rows[i][rk]]
        rest == SelectIdx(right.rows, 1, only)
        lrow(r) == [j \in 1..Len(left.cols) |-> IF j = lk THEN r[rk] ELSE NaN]
        hit(l) == [i \in 1..Len(right.rows) |-> right.rows[i][rk] = l[lk]]
        joined(l) ==
            IF SelectIdx(right.rows, 1, hit(l)) = <<>>
            THEN << l \o [j \in 1..(Len(right.cols) - 1) |-> NaN] >>
            ELSE [i \in 1..Len(SelectIdx(right.rows, 1, hit(l))) |->
                     l \o SelectIdx(SelectIdx(right.rows, 1, hit(l))[i], 1, notKey)]
    IN  [cols |-> left.cols \o SelectIdx(right.cols, 1, notKey),
         rows |-> Flatten([i \in 1..Len(left.rows) |-> joined(left.rows[i])])
                  \o [i \in 1..Len(rest) |-> lrow(rest[i]) \o SelectIdx(rest[i], 1, notKey)]]

\* pd.merge(left, right, how='left', on='Date')
MergeLeft(left, right) ==
    LET lk == IndexOf(left.cols, "Date")
        rk == IndexOf(right.cols, "Date")
        notKey == [j \in 1..Len(right.cols) |-> j # rk]
        rdata(r) == SelectIdx(r, 1, notKey)
        lcols == [j \in 1..Len(left.cols) |->
                    IF j # lk /\ \E q \in 1..Len(right.cols) : q # rk /\ right.cols[q] = left.cols[j]
                    THEN left.cols[j] \o "_x" ELSE left.cols[j]]
        rsuff == [j \in 1..Len(right.cols) |->
                    IF \E q \in 1..Len(left.cols) : q # lk /\ left.cols[q] = right.cols[j]
                    THEN right.cols[j] \o "_y" ELSE right.cols[j]]
        nans  == [j \in 1..(Len(right.cols) - 1) |-> NaN]
        joined(l) ==
            LET hit == [i \in 1..Len(right.rows) |-> right.rows[i][rk] = l[lk]]
                ms == SelectIdx(right.rows, 1, hit)
            IN  IF ms = <<>> THEN << l \o nans >>
                ELSE [i \in 1..Len(ms) |-> l \o rdata(ms[i])]
    IN       [cols |-> lcols \o rdata(rsuff),
              rows |-> Flatten([i \in 1..Len(left.rows) |-> joined(left.rows[i])])]

\* df.set_index('Date')
SetIndex(df) ==
    LET k == IndexOf(df.cols, "Date")
        notKey == [j \in 1..Len(df.cols) |-> j # k]
    IN  [index |-> [i \in 1..Len(df.rows) |-> df.rows[i][k]],
         cols  |-> SelectIdx(df.cols, 1, notKey),
         rows  |-> [i \in 1..Len(df.rows) |-> SelectIdx(df.rows[i], 1, notKey)]]

\* df.dropna(how='all'): a row goes when no cell of it holds a value
dropna_all(df) ==
    LET keep == [i \in 1..Len(df.rows) |-> \E j \in 1..Len(df.rows[i]) : df.rows[i][j] # NaN]
    IN  [index |-> SelectIdx(df.index, 1, keep),
         cols  |-> df.cols,
         rows  |-> SelectIdx(df.rows, 1, keep)]

(***************************************************************************)
(* The remote endpoint: what it answers to a download URL.  It knows a few *)
(* symbols (case-insensitively) and answers 404 for any other; it has one  *)
(* line per US session between period1 and period2.                        *)
(***************************************************************************)
KnownSymbols == {"AAPL", "VZ", "JPM", "V", "Z"}

HistoryFields == <<"Open", "High", "Low", "Close", "Adj Close", "Volume">>

\* days on which the endpoint has only "null" for the symbol
NullDays(sym) == IF sym = "VZ" THEN {<<2010,12,2>>} ELSE {}
\* days the endpoint lists twice for the symbol
DupDays(sym) == IF sym = "JPM" THEN {<<2010,12,1>>} ELSE {}
\* days with a dividend / a split of the symbol
EventDays(sym, events) ==
    CASE events = "div" /\ sym = "AAPL" -> {<<2010,11,26>>}
      [] events = "div" /\ sym \in {"VZ", "JPM", "V"} -> {<<2010,12,1>>}
      [] events = "split" /\ sym \in {"AAPL", "Z"} -> {<<2010,11,30>>}
      [] OTHER -> {}

Value(sym, field, n) == <<"v", sym, field, n>>

RemoteLines(sym, events, n) ==
    LET date == Strftime(n)
        one  == IF events = "history"
                THEN IF date \in NullDays(sym)
                     THEN <<date>> \o [j \in 1..Len(HistoryFields) |-> NULL]
                     ELSE <<date>> \o [j \in 1..Len(HistoryFields) |-> Value(sym, HistoryFields[j], n)]
                ELSE <<date, Value(sym, events, n)>>
    IN  IF events # "history" /\ date \notin EventDays(sym, events) THEN <<>>
        ELSE IF date \in DupDays(sym) THEN <<one, one>>
        ELSE <<one>>

RECURSIVE RemoteBody(_, _, _, _)
\* the lines of the days a..b, a US session at a time
RemoteBody(sym, events, a, b) ==
    IF a > b THEN <<>>
    ELSE (IF IsSession("NYSE", a) THEN RemoteLines(sym, events, a) ELSE <<>>)
         \o RemoteBody(sym, events, a + 1, b)

RemoteHeader(events) ==
    CASE events = "history" -> <<"Date">> \o HistoryFields
      [] events = "div"     -> <<"Date", "Dividends">>
      [] OTHER              -> <<"Date", "Stock Splits">>

\* the response to session.get(url)
Remote(url) ==
    LET sym == Text(StrUpper(url.ticker))
    IN  IF sym \notin KnownSymbols
        THEN [status |-> 404, text |-> << <<"error">> >>]
        ELSE [status |-> 200,
              text   |-> << RemoteHeader(url.events) >>
                         \o RemoteBody(sym, url.events,
                                       url.period1 \div 86400, url.period2 \div 86400)]

(***************************************************************************)
(* State.                                                                  *)
(***************************************************************************)
VARIABLES
    params,       \* the caller's Parameters object (Download.params)
    params0,      \* its attributes when the call was made
    identifier,   \* 'history' | 'div' | 'split'
    pc,           \* where get_multiple_tickers stands
    raised,       \* the exception the call ended with, or None
    ret,          \* the frame the call returned
    date_range,   \* the class attribute ExchangeCalendar.date_range
    others,       \* calendars other requests have constructed meanwhile
    tickers,      \* Download.tickers
    output_df,    \* Download.output_df
    date_axis,    \* the frame get_dates returned (output_df before the merges)
    daily_arg,    \* Monthly.get_dates: the first argument, once evaluated
    results,      \* Download.results: frame ids, one per ticker
    merged,       \* results the merge loop has been through
    pool,         \* Download.pool: none | running | closed | joined
    args,         \* the argument list starmap walks: one ticker per task
    tpc,          \* per task: where _get_single_ticker stands
    sent,         \* per task: the URLs it has requested
    inflight,     \* tasks whose session.get has not returned
    start_unix,   \* Download.start_unix
    end_unix,     \* Download.end_unix
    response,     \* Download.response
    output,       \* Download.output: a frame id, 0 before the first store
    heap,         \* the frames _get_url made, by the task that made them
    retval,       \* per task: the frame id it returned, 0 before
    first_error   \* MapResult._value on failure: the first task that raised

vars == <<params, params0, identifier, pc, raised, ret, date_range, others,
          tickers, output_df, date_axis, daily_arg, results, merged, pool, args, tpc, sent,
          inflight, start_unix, end_unix, response, output, heap, retval,
          first_error>>

callVars == <<params, params0, identifier, tickers, date_axis, daily_arg>>
poolVars == <<args, tpc, sent, inflight, start_unix, end_unix, response,
              output, heap, retval, first_error>>

NoFrame == [cols |-> <<>>, rows |-> <<>>]
NoTable == [index |-> <<>>, cols |-> <<>>, rows |-> <<>>]
NoResponse == [status |-> 0, text |-> <<>>]

(***************************************************************************)
(* Requests explored.                                                      *)
(***************************************************************************)
AAPL == <<"A","A","P","L">>
vz == <<"v","z">>
XX == <<"X","X">>
JPM == <<"J","P","M">>

Names == {AAPL, vz}

PyList(l) == [isList |-> TRUE, val |-> l]
PyStr(t) == [isList |-> FALSE, val |-> t]

TickerInputs ==
    {PyList(l) : l \in UNION {[1..n -> Names] : n \in 1..MaxTickers}} \cup {PyStr(vz)}

ColumnInputs == {<<"Close">>, <<"Date", "Close">>, <<"Open", "Close">>}

Identifiers == {"history", "div", "split"}

\* every ticker input, over the range of the repository's test widened to a
\* week boundary and a month boundary
BatchRequests ==
    [start : {<<2010,11,24>>}, end : {<<2010,12,4>>}, tickers : TickerInputs,
     interval : {"d"}, exchange : {"NYSE"}, columns : {<<"Open", "Close">>}]

\* batches with a ticker the endpoint does not know
FailingRequests ==
    [start : {<<2010,11,24>>}, end : {<<2010,12,4>>},
     tickers : {PyList(<<XX>>), PyList(<<AAPL, XX>>), PyList(<<XX, vz>>)},
     interval : {"d"}, exchange : {"NYSE"}, columns : {<<"Open", "Close">>}]

\* every column list, for each kind of data
ColumnRequests ==
    [start : {<<2010,11,24>>}, end : {<<2010,12,4>>},
     tickers : {PyList(<<AAPL>>), PyList(<<AAPL, vz>>)},
     interval : {"d"}, exchange : {"NYSE"}, columns : ColumnInputs]

\* every date range, interval and exchange, valid or not
CalendarRequests ==
    [start : {<<2010,11,24>>, <<2010,12,1>>}, end : {<<2010,11,30>>, <<2010,12,4>>},
     tickers : {PyList(<<AAPL>>), PyList(<<vz, JPM>>)},
     interval : {"d", "w", "m", "y"}, exchange : {"NYSE", "LSE", "XETRA"},
     columns : {<<"Close">>}]

\* one batch longer than 4 * pool width, the endpoint knowing none of it
LongRequests ==
    [start : {<<2010,12,1>>}, end : {<<2010,12,4>>},
     tickers : {PyList([i \in 1..BigBatch |-> XX])},
     interval : {"d"}, exchange : {"NYSE"}, columns : {<<"Close">>}]

\* what another request may construct a calendar for
OtherCalendars ==
    [start : {<<2010,11,24>>, <<2010,12,1>>}, end : {<<2010,12,4>>}, exchange : {"NYSE", "LSE"}]

\* the state a call starts in, the request apart
Fresh ==
    /\ params0 = params
    /\ pc = "call"
    /\ raised = None
    /\ ret = NoTable
    /\ date_range = [set |-> FALSE, dr |-> <<>>]
    /\ others = 0
    /\ tickers = <<>>
    /\ output_df = NoFrame
    /\ date_axis = NoFrame
    /\ daily_arg = <<>>
    /\ results = <<>>
    /\ merged = 0
    /\ pool = "none"
    /\ args = <<>>
    /\ tpc = <<>>
    /\ sent = <<>>
    /\ inflight = {}
    /\ start_unix = 0
    /\ end_unix = 0
    /\ response = NoResponse
    /\ output = 0
    /\ heap = <<>>
    /\ retval = <<>>
    /\ first_error = 0

\* calendar runs: the ranges of up to MaxSpan days that start up to MaxStartShift
\* days after an anchor day (the Monday before the NYSE closure of September
\* 2001, the Monday of Thanksgiving week 2010, a Monday with the whole of
\* February within reach)
Anchors == {<<2001,9,3>>, <<2010,11,22>>, <<2011,1,24>>}

RangeRequests ==
    {[start    |-> Strftime(DaysFromCivil(a) + s),
      end      |-> Strftime(DaysFromCivil(a) + s + l),
      tickers  |-> PyList(<<AAPL>>),
      interval |-> iv,
      exchange |-> ex,
      columns  |-> <<"Close">>] :
        a \in Anchors, s \in 0..MaxStartShift, l \in 0..MaxSpan,
        iv \in Intervals, ex \in {"NYSE", "LSE"}}

Init ==
    /\ \/ params \in BatchRequests /\ identifier = "history"
       \/ params \in FailingRequests /\ identifier = "history"
       \/ params \in ColumnRequests /\ identifier \in Identifiers
       \/ params \in CalendarRequests /\ identifier = "history"
       \/ params \in LongRequests /\ identifier = "history"
    /\ Fresh

(***************************************************************************)
(* get_multiple_tickers, up to the batch.                                  *)
(***************************************************************************)
\* Tickers.transform
transform(t) ==
    LET ticker_list == IF t.isList THEN t.val ELSE << t.val >>
    IN  [i \in 1..Len(ticker_list) |-> StrUpper(ticker_list[i])]

\* self.params.columns after lines 288-289
WithDate(columns) ==
    IF IndexOf(columns, "Date") = 0 THEN <<"Date">> \o columns ELSE columns

Raise(e) == pc' = "raised" /\ raised' = e

\* lines 287-292: the Date column is inserted into the caller's list, then the
\* tickers are transformed
AddDateColumn ==
    /\ pc = "call"
    /\ params' = [params EXCEPT !.columns = WithDate(params.columns)]
    /\ tickers' = transform(params.tickers)
    /\ pc' = "calendar"
    /\ UNCHANGED <<params0, identifier, raised, ret, date_range, others, output_df,
                   date_axis, daily_arg, results, merged, pool>>
    /\ UNCHANGED poolVars

\* line 295, ExchangeCalendar(start, end, exchange): __init__ stores the range
\* in the class attribute
CalendarInit ==
    /\ pc = "calendar"
    /\ LET e == get_daterange_error(params.start, params.end, params.exchange)
       IN  IF e # None
           THEN Raise(e) /\ UNCHANGED date_range
           ELSE /\ date_range' = [set |-> TRUE,
                                  dr  |-> get_daterange(params.start, params.end, params.exchange)]
                /\ pc' = "get_dates"
                /\ UNCHANGED raised
    /\ UNCHANGED <<ret, others, output_df, results, merged, pool>>
    /\ UNCHANGED callVars
    /\ UNCHANGED poolVars

\* ExchangeCalendar.__init__ of another request, in another thread.  Only its
\* write to the class attribute is seen here, and only until get_dates has
\* read the attribute.
OtherCalendarInit ==
    /\ pc \in {"call", "calendar", "get_dates", "month_labels"}
    /\ others < MaxOtherCalendars
    /\ \E o \in OtherCalendars :
          /\ <<o.start, o.end, o.exchange>> # <<params.start, params.end, params.exchange>>
          /\ date_range' = [set |-> TRUE, dr |-> get_daterange(o.start, o.end, o.exchange)]
    /\ others' = others + 1
    /\ UNCHANGED <<pc, raised, ret, output_df, results, merged, pool>>
    /\ UNCHANGED callVars
    /\ UNCHANGED poolVars

\* line 295, .get_dates(interval): the assert of line 91 fails for an interval
\* that is none of d, w, m.  Daily and Weekly read the class attribute once;
\* Monthly reads it for its first argument here (line 124) and again for its
\* second one (line 125)
GetDates ==
    /\ pc = "get_dates"
    /\ IF IntervalRejected(params.interval)
       THEN Raise("AssertionError") /\ UNCHANGED <<output_df, date_axis, daily_arg>>
       ELSE IF params.interval = "m"
       THEN /\ daily_arg' = DailyStrings(date_range.dr)
            /\ pc' = "month_labels"
            /\ UNCHANGED <<raised, output_df, date_axis>>
       ELSE /\ output_df' = get_dates(date_range.dr, params.interval)
            /\ date_axis' = output_df'
            /\ pc' = "download"
            /\ UNCHANGED <<raised, daily_arg>>
    /\ UNCHANGED <<ret, date_range, others, results, merged, pool>>
    /\ UNCHANGED <<params, params0, identifier, tickers>>
    /\ UNCHANGED poolVars

\* lines 125-126 of Monthly.get_dates: the month labels are read from the class
\* attribute as it is now, and the frame is made
GetMonthLabels ==
    /\ pc = "month_labels"
    /\ output_df' = DateFrame(get_monthly_dates(daily_arg, MonthStrings(date_range.dr)))
    /\ date_axis' = output_df'
    /\ pc' = "download"
    /\ UNCHANGED <<raised, ret, date_range, others, results, merged, pool>>
    /\ UNCHANGED <<params, params0, identifier, tickers, daily_arg>>
    /\ UNCHANGED poolVars

(***************************************************************************)
(* _download_thread: ThreadPool(4).starmap over zip(self.params.tickers,   *)
(* repeat(identifier)).  starmap cuts the argument list into chunks of     *)
(* ceil(n / (4 * 4)) tasks; a worker runs a chunk's tasks one after the    *)
(* other and gives the chunk up at the first task that raises.  A worker   *)
(* has no state of its own besides the chunk it runs, so the model keeps   *)
(* the tasks' positions and counts the chunks being run.                   *)
(***************************************************************************)
\* zip(self.params.tickers, ...): the elements of the list, or the characters
\* of the str
StarmapArgs(p) ==
    IF p.tickers.isList THEN p.tickers.val
    ELSE [i \in 1..Len(p.tickers.val) |-> << p.tickers.val[i] >>]

\* Pool._map_async: the chunk size for n tasks
chunksize(n) ==
    IF n = 0 THEN 0
    ELSE (n + PoolWidth * ChunkFactor - 1) \div (PoolWidth * ChunkFactor)

NTasks == Len(args)
NChunks == IF NTasks = 0 THEN 0 ELSE (NTasks + chunksize(NTasks) - 1) \div chunksize(NTasks)
FirstOf(c) == (c - 1) * chunksize(NTasks) + 1
LastOf(c) == IF c * chunksize(NTasks) < NTasks THEN c * chunksize(NTasks) ELSE NTasks
ChunkOf(i) == (i - 1) \div chunksize(NTasks) + 1

ChunkFailed(c) == \E i \in FirstOf(c)..LastOf(c) : tpc[i] = "raised"
ChunkFinished(c) == tpc[LastOf(c)] = "done" \/ ChunkFailed(c)

\* chunks a worker holds: the workers take the chunks off the queue in order,
\* each worker the next one as soon as it is done with the one it held
Busy ==
    {c \in 1..NChunks :
        /\ ~ChunkFinished(c)
        /\ c <= Cardinality({d \in 1..NChunks : ChunkFinished(d)}) + PoolWidth}

\* MapResult._number_left
number_left == Cardinality({c \in 1..NChunks : ~ChunkFinished(c)})

\* MapResult is ready: "only consider the result ready once all jobs are done"
MapReady == number_left = 0

\* a pool whose workers end after the first chunk they run
MayStartOnce(i) ==
    /\ tpc[i] = "queued"
    /\ IF i = FirstOf(ChunkOf(i))
       THEN ChunkOf(i) <= PoolWidth
       ELSE tpc[i - 1] = "done"

\* a worker may take up task i: the first task of a chunk it holds, whenever
\* it is scheduled, or the task after the one it has done
MayStart(i) ==
    /\ tpc[i] = "queued"
    /\ IF i = FirstOf(ChunkOf(i))
       THEN ChunkOf(i) \in Busy
       ELSE tpc[i - 1] = "done"

Url(ticker, ident) ==
    [ticker |-> ticker, period1 |-> start_unix', period2 |-> end_unix',
     interval |-> "1d", events |-> ident, crumb |-> "crumb"]

\* lines 225-228: the pool is made and starmap queues the tasks
StartPool ==
    /\ pc = "download"
    /\ pool' = "running"
    /\ args' = StarmapArgs(params)
    /\ tpc' = [i \in 1..Len(args') |-> "queued"]
    /\ sent' = [i \in 1..Len(args') |-> <<>>]
    /\ heap' = [i \in 1..Len(args') |-> [made |-> FALSE, frame |-> NoFrame, name |-> NoName]]
    /\ retval' = [i \in 1..Len(args') |-> 0]
    /\ pc' = "starmap"
    /\ UNCHANGED <<raised, ret, date_range, others, output_df, results, merged,
                   inflight, start_unix, end_unix, response, output, first_error>>
    /\ UNCHANGED callVars

\* _get_single_ticker lines 257-261 and _get_url line 201 up to the request:
\* the dates are converted into the shared attributes (every task writes the
\* same two values), the URL is formatted and the GET is sent
TaskGet(i) ==
    /\ pool = "running"
    /\ MayStart(i)
    /\ start_unix' = convert_to_unix(params.start)
    /\ end_unix' = convert_to_unix(params.end)
    /\ sent' = [sent EXCEPT ![i] = Append(@, Url(args[i], identifier))]
    /\ inflight' = inflight \cup {i}
    /\ tpc' = [tpc EXCEPT ![i] = "get"]
    /\ UNCHANGED <<pc, raised, ret, date_range, others, output_df, results, merged,
                   pool, args, response, output, heap, retval, first_error>>
    /\ UNCHANGED callVars

\* line 201: session.get returns and the response is stored in self.response
TaskResponse(i) ==
    /\ tpc[i] = "get"
    /\ response' = Remote(sent[i][Len(sent[i])])
    /\ inflight' = inflight \ {i}
    /\ tpc' = [tpc EXCEPT ![i] = "status"]
    /\ UNCHANGED <<pc, raised, ret, date_range, others, output_df, results, merged,
                   pool, args, sent, start_unix, end_unix, output, heap, retval,
                   first_error>>
    /\ UNCHANGED callVars

\* line 202: self.response.raise_for_status(), on whatever self.response is now
TaskRaiseForStatus(i) ==
    /\ tpc[i] = "status"
    /\ IF response.status # 200
       THEN /\ tpc' = [tpc EXCEPT ![i] = "raised"]
            /\ first_error' = IF first_error = 0 THEN i ELSE first_error
       ELSE /\ tpc' = [tpc EXCEPT ![i] = "parse"]
            /\ UNCHANGED first_error
    /\ UNCHANGED <<pc, raised, ret, date_range, others, output_df, results, merged,
                   pool, args, sent, inflight, start_unix, end_unix, response, output,
                   heap, retval>>
    /\ UNCHANGED callVars

\* line 204: a new frame is parsed from self.response.text, as it is now
TaskReadCsv(i) ==
    /\ tpc[i] = "parse"
    /\ heap' = [heap EXCEPT ![i] = [made  |-> TRUE,
                                    frame |-> dropna_any(replace_null(read_csv(response.text))),
                                    name  |-> NoName]]
    /\ tpc' = [tpc EXCEPT ![i] = "store"]
    /\ UNCHANGED <<pc, raised, ret, date_range, others, output_df, results, merged,
                   pool, args, sent, inflight, start_unix, end_unix, response, output,
                   retval, first_error>>
    /\ UNCHANGED callVars

\* line 261: self.output = <the frame _get_url returned>
TaskStoreOutput(i) ==
    /\ tpc[i] = "store"
    /\ output' = i
    /\ tpc' = [tpc EXCEPT ![i] = "name"]
    /\ UNCHANGED <<pc, raised, ret, date_range, others, output_df, results, merged,
                   pool, args, sent, inflight, start_unix, end_unix, response, heap,
                   retval, first_error>>
    /\ UNCHANGED callVars

\* line 264: self.output.index.name = ticker, on whatever self.output is now
TaskSetName(i) ==
    /\ tpc[i] = "name"
    /\ heap' = [heap EXCEPT ![output].name = args[i]]
    /\ tpc' = [tpc EXCEPT ![i] = "return"]
    /\ UNCHANGED <<pc, raised, ret, date_range, others, output_df, results, merged,
                   pool, args, sent, inflight, start_unix, end_unix, response, output,
                   retval, first_error>>
    /\ UNCHANGED callVars

\* line 266: return self.output, whatever it is now
TaskReturn(i) ==
    /\ tpc[i] = "return"
    /\ retval' = [retval EXCEPT ![i] = output]
    /\ tpc' = [tpc EXCEPT ![i] = "done"]
    /\ UNCHANGED <<pc, raised, ret, date_range, others, output_df, results, merged,
                   pool, args, sent, inflight, start_unix, end_unix, response, output,
                   heap, first_error>>
    /\ UNCHANGED callVars

\* line 228: starmap returns the list of results, or raises the first exception
\* a task raised; the pool is then neither closed nor joined
StarmapReturn ==
    /\ pc = "starmap"
    /\ MapReady
    /\ IF first_error # 0
       THEN Raise("HTTPError") /\ UNCHANGED results
       ELSE results' = retval /\ pc' = "close" /\ UNCHANGED raised
    /\ UNCHANGED <<ret, date_range, others, output_df, merged, pool>>
    /\ UNCHANGED callVars
    /\ UNCHANGED poolVars

\* line 231
PoolClose ==
    /\ pc = "close"
    /\ pool' = "closed"
    /\ pc' = "join"
    /\ UNCHANGED <<raised, ret, date_range, others, output_df, results, merged>>
    /\ UNCHANGED callVars
    /\ UNCHANGED poolVars

\* a _download_thread that closes the pool and goes on without joining it
PoolNotJoined ==
    /\ pc = "join"
    /\ pc' = "merge"
    /\ UNCHANGED <<raised, ret, date_range, others, output_df, results, merged, pool>>
    /\ UNCHANGED callVars
    /\ UNCHANGED poolVars

\* line 232: join returns when the workers have ended, which they do once the
\* pool is closed and every chunk has been run
PoolJoin ==
    /\ pc = "join"
    /\ \A c \in 1..NChunks : ChunkFinished(c)
    /\ pool' = "joined"
    /\ pc' = "merge"
    /\ UNCHANGED <<raised, ret, date_range, others, output_df, results, merged>>
    /\ UNCHANGED callVars
    /\ UNCHANGED poolVars

(***************************************************************************)
(* The merge loop and the return.                                          *)
(***************************************************************************)
\* lines 303-306: self.data_df for a result
data_df(result) ==
    IF identifier = "history" THEN Project(result.frame, params.columns) ELSE result.frame

\* lines 301-314, one pass of the loop
MergeStep ==
    /\ pc = "merge"
    /\ merged < Len(results)
    /\ LET result == heap[results[merged + 1]]
       IN  IF identifier = "history" /\ ProjectFails(result.frame, params.columns)
           THEN Raise("KeyError") /\ UNCHANGED <<output_df, merged>>
           ELSE IF RenameFails(data_df(result), result.name)
           THEN Raise("TypeError") /\ UNCHANGED <<output_df, merged>>
           ELSE IF MergeFails(output_df, RenameColumns(data_df(result), result.name))
           THEN Raise("KeyError") /\ UNCHANGED <<output_df, merged>>
           ELSE /\ output_df' = MergeLeft(output_df, RenameColumns(data_df(result), result.name))
                /\ merged' = merged + 1
                /\ UNCHANGED <<pc, raised>>
    /\ UNCHANGED <<ret, date_range, others, results, pool>>
    /\ UNCHANGED callVars
    /\ UNCHANGED poolVars

\* lines 317-319
Finish ==
    /\ pc = "merge"
    /\ merged = Len(results)
    /\ output_df' = SetIndex(output_df)
    /\ ret' = dropna_all(output_df')
    /\ pc' = "returned"
    /\ UNCHANGED <<raised, date_range, others, results, merged, pool>>
    /\ UNCHANGED callVars
    /\ UNCHANGED poolVars

Next ==
    \/ AddDateColumn
    \/ CalendarInit
    \/ OtherCalendarInit
    \/ GetDates
    \/ GetMonthLabels
    \/ StartPool
    \/ \E i \in 1..Len(args) : TaskGet(i)
    \/ \E i \in 1..Len(args) : TaskResponse(i)
    \/ \E i \in 1..Len(args) : TaskRaiseForStatus(i)
    \/ \E i \in 1..Len(args) : TaskReadCsv(i)
    \/ \E i \in 1..Len(args) : TaskStoreOutput(i)
    \/ \E i \in 1..Len(args) : TaskSetName(i)
    \/ \E i \in 1..Len(args) : TaskReturn(i)
    \/ StarmapReturn
    \/ PoolClose
    \/ PoolJoin
    \/ MergeStep
    \/ Finish

Spec == Init /\ [][Next]_vars

(***************************************************************************)
(* The calendar alone: ExchangeCalendar(start, end, exchange).get_dates(i) *)
(* as get_multiple_tickers calls it, over every range of RangeRequests.    *)
(***************************************************************************)
CalendarInit0 ==
    /\ params \in RangeRequests
    /\ identifier = "history"
    /\ Fresh

CalendarNext ==
    \/ AddDateColumn
    \/ CalendarInit
    \/ GetDates
    \/ GetMonthLabels

CalendarSpec == CalendarInit0 /\ [][CalendarNext]_vars

(***************************************************************************)
(* The call on its own, with its threads scheduled: no other request       *)
(* constructs a calendar meanwhile, and as long as the calling thread, a   *)
(* worker or an outstanding request can take a step, one of them does.     *)
(***************************************************************************)
\* batches of one ticker to more than four pool widths, with and without
\* a ticker the endpoint does not know, requests the calendar refuses, and one
\* monthly request over a month transition
ScheduledRequests ==
    [start : {<<2010,12,1>>}, end : {<<2010,12,4>>},
     tickers : {PyList(<<AAPL>>), PyList(<<AAPL, vz>>), PyList(<<AAPL, XX>>),
                PyList([i \in 1..(PoolWidth + 1) |-> XX]),
                PyList([i \in 1..BigBatch |-> XX])},
     interval : {"d", "y"}, exchange : {"NYSE"}, columns : {<<"Close">>}]
    \cup
    [start : {<<2010,11,24>>}, end : {<<2010,12,4>>}, tickers : {PyList(<<AAPL>>)},
     interval : {"m"}, exchange : {"NYSE"}, columns : {<<"Close">>}]

ScheduledInit ==
    /\ params \in ScheduledRequests
    /\ identifier = "history"
    /\ Fresh

\* the steps of the thread that called get_history / get_dividends / get_splits
Caller ==
    \/ AddDateColumn
    \/ CalendarInit
    \/ GetDates
    \/ GetMonthLabels
    \/ StartPool
    \/ StarmapReturn
    \/ PoolClose
    \/ PoolJoin
    \/ MergeStep
    \/ Finish

\* the steps of the workers, of whichever task
Workers ==
    \E i \in 1..Len(args) :
        \/ TaskGet(i)
        \/ TaskRaiseForStatus(i)
        \/ TaskReadCsv(i)
        \/ TaskStoreOutput(i)
        \/ TaskSetName(i)
        \/ TaskReturn(i)

\* session.get of some task returns
Answered == \E i \in 1..Len(args) : TaskResponse(i)

ScheduledNext ==
    \/ Caller
    \/ Workers
    \/ Answered

ScheduledSpec ==
    /\ ScheduledInit
    /\ [][ScheduledNext]_vars
    /\ WF_vars(ScheduledNext)

(***************************************************************************)
(* Properties.                                                             *)
(***************************************************************************)
\* the call has ended
Ended == pc \in {"returned", "raised"}

\* starmap has returned the results of the batch
BatchReturned == pc \in {"close", "join", "merge", "returned"} \/ merged > 0

\* the frame _get_url makes of the response to task i's own request
OwnFrame(i) == dropna_any(replace_null(read_csv(Remote(sent[i][1]).text)))

\* the data columns asked of one ticker's series
DataFields ==
    CASE identifier = "history" ->
            SelectIdx(params0.columns, 1, [k \in 1..Len(params0.columns) |-> params0.columns[k] # "Date"])
      [] identifier = "div" -> <<"Dividends">>
      [] OTHER -> <<"Stock Splits">>

Distinct(l) == \A i, j \in 1..Len(l) : i # j => l[i] # l[j]

\* C1: in a batch of two or more tickers, under every interleaving, the result
\* returned for a ticker is the series parsed from the response to its own
\* request, and carries its own ticker as name.
C1_OwnResult ==
    (BatchReturned /\ Len(args) >= 2) =>
        \A i \in 1..Len(args) :
            /\ heap[results[i]].frame = OwnFrame(i)
            /\ heap[results[i]].name = args[i]

\* C2: a price-history request for fields F and distinct tickers T1..Tn returns
\* the data columns <f>_<Ti>, by ticker in request order and by field within a
\* ticker, whatever order the fetches complete in.
C2_ColumnsInRequestOrder ==
    (pc = "returned" /\ identifier = "history" /\ params0.tickers.isList
        /\ Distinct(params0.tickers.val)) =>
        ret.cols = Flatten([i \in 1..Len(params0.tickers.val) |->
                       [k \in 1..Len(DataFields) |->
                           ColumnName(DataFields[k], params0.tickers.val[i])]])

\* C3: when one ticker's fetch fails and another's succeeds, the call ends with
\* a table holding the succeeding tickers' columns (and the failure reported),
\* never with the successful results thrown away.
C3_PartialResultsKept ==
    (Ended /\ pool # "none"
        /\ (\E i \in 1..Len(args) : tpc[i] = "raised")
        /\ (\E j \in 1..Len(args) : tpc[j] = "done")) =>
        /\ pc = "returned"
        /\ \A j \in 1..Len(args) : tpc[j] = "done" =>
              \A k \in 1..Len(DataFields) :
                  \E q \in 1..Len(ret.cols) : ret.cols[q] = ColumnName(DataFields[k], args[j])

\* C4: the merge phase begins only after every ticker's fetch has completed and
\* the pool has been joined: no merge step has run, and none can, while a task
\* is still fetching or parsing.
C4_MergeAfterJoin ==
    (pc = "merge" \/ pc = "returned" \/ merged > 0) =>
        /\ pool = "joined"
        /\ inflight = {}
        /\ \A i \in 1..Len(args) : tpc[i] = "done"

\* C4 witness: a merge step has run for a batch of two tickers
C4_Witness == merged >= 1 /\ Len(args) >= 2 /\ pool = "joined"

\* C5: at most 4 requests are in flight at any moment, and when the batch is
\* over exactly one GET has been issued for each element of the ticker sequence.
C5_BoundedOneGetEach ==
    /\ Cardinality(inflight) <= PoolWidth
    /\ \A i \in 1..Len(sent) : Len(sent[i]) <= 1
    /\ (Ended /\ pool # "none") => \A i \in 1..Len(sent) : Len(sent[i]) = 1

\* C6: the fetches are those of normalize(tickers): one per element, each for
\* the upper-cased ticker, and the columns of the table carry the upper-cased
\* ticker.
C6_FetchesNormalized ==
    /\ pool # "none" =>
          /\ Len(sent) = Len(transform(params0.tickers))
          /\ \A i \in 1..Len(sent) : \A k \in 1..Len(sent[i]) :
                i <= Len(transform(params0.tickers))
                /\ sent[i][k].ticker = transform(params0.tickers)[i]
    /\ (pc = "returned" /\ pool # "none") =>
          \A q \in 1..Len(ret.cols) :
              \E i \in 1..Len(transform(params0.tickers)) : \E k \in 1..Len(DataFields) :
                  ret.cols[q] = ColumnName(DataFields[k], transform(params0.tickers)[i])

\* C7: the call leaves the caller's request object as it was: columns, tickers,
\* start, end, interval and exchange keep their values.
C7_RequestUnchanged == params = params0

\* C8: the date axis of a request is the one of its own (start, end, exchange,
\* interval), whatever calendars are constructed for other requests meanwhile.
C8_AxisOfOwnRequest ==
    pc \in {"download", "starmap", "close", "join", "merge", "returned"} =>
        date_axis = get_dates(get_daterange(params0.start, params0.end, params0.exchange),
                              params0.interval)

\* a request that breaks a request invariant
InvalidRequest ==
    \/ DaysFromCivil(params0.start) > DaysFromCivil(params0.end)
    \/ params0.interval \notin {"d", "w", "m"}

\* C9: a request with start later than end, or with an interval that is none of
\* daily, weekly, monthly, never gets past the calendar: it can only end in an
\* error, and no pool is made and no GET is issued for it.
C9_InvalidRejected ==
    InvalidRequest =>
        /\ pc \in {"call", "calendar", "get_dates", "raised"}
        /\ pc = "raised" => raised \in {"ValueError", "AssertionError", "RuntimeError"}
        /\ pool = "none"
        /\ inflight = {}
        /\ \A i \in 1..Len(sent) : sent[i] = <<>>

\* C9 witness: a request with a valid range and an interval that is not one of
\* the three has ended in the assertion's error
C9_Witness ==
    /\ InvalidRequest
    /\ pc = "raised"
    /\ raised = "AssertionError"

\* the dates of the axis get_dates returned
AxisDates == [i \in 1..Len(date_axis.rows) |-> date_axis.rows[i][1]]

\* C10: the dates of the returned table's index all belong to the date axis
\* computed for the request, and appear in ascending order, in the order of
\* the axis (a date the merge repeats stays next to itself).
C10_IndexWithinAxis ==
    pc = "returned" =>
        /\ \A i \in 1..Len(ret.index) : IndexOf(AxisDates, ret.index[i]) # 0
        /\ \A i, j \in 1..Len(ret.index) : i < j =>
              /\ ~DateLess(ret.index[j], ret.index[i])
              /\ IndexOf(AxisDates, ret.index[i]) <= IndexOf(AxisDates, ret.index[j])

\* C10 witness: a table was returned with two rows or more, and with fewer rows
\* than the axis has dates
C10_Witness ==
    /\ pc = "returned"
    /\ Len(ret.index) >= 2
    /\ Len(ret.index) < Len(date_axis.rows)

\* task i's own series has no row for the date d
LacksData(i, d) ==
    \A r \in 1..Len(OwnFrame(i).rows) :
        OwnFrame(i).rows[r][IndexOf(OwnFrame(i).cols, "Date")] # d

\* the cells of a row of the returned table that belong to task i's ticker
CellsOf(row, i) ==
    {row[j] : j \in {q \in 1..Len(row) :
                        /\ q > (i - 1) * Len(DataFields)
                        /\ q <= i * Len(DataFields)}}

\* C11: a date of the axis is absent from the returned table when every
\* requested ticker lacks data for it, and present when some ticker has data
\* for it, with empty cells for each ticker that lacks data for it.
C11_RowsOfPresentData ==
    pc = "returned" =>
        \A k \in 1..Len(AxisDates) :
            LET d == AxisDates[k]
            IN  /\ (\A i \in 1..Len(args) : LacksData(i, d)) => IndexOf(ret.index, d) = 0
                /\ (\E i \in 1..Len(args) : ~LacksData(i, d)) =>
                      /\ IndexOf(ret.index, d) # 0
                      /\ \A r \in 1..Len(ret.index) : ret.index[r] = d =>
                            \A i \in 1..Len(args) :
                                LacksData(i, d) => CellsOf(ret.rows[r], i) \subseteq {NaN}

(***************************************************************************)
(* Properties of the frequency reductions, under CalendarSpec.             *)
(***************************************************************************)
\* get_dates has returned the axis of the interval
AxisMade(time_interval) == pc = "download" /\ params.interval = time_interval

\* D: the daily strings get_dates reduced
D == DailyStrings(date_range.dr)

\* the adjacent pair (D[i], D[i+1]) is one at which the code sees a week
\* rollover: the weekday number falls
Rollover(i) == day_of_week_num(D[i]) > day_of_week_num(D[i + 1])

\* the elements of l ascend strictly
Ascending(l) == \A i, j \in 1..Len(l) : i < j => DateLess(l[i], l[j])

InSeq(l, x) == \E i \in 1..Len(l) : l[i] = x

\* C12: the weekly axis is exactly the D[i], the earlier day, of the adjacent
\* pairs (D[i], D[i+1]) at which a week rollover is detected.
C12_WeeklyEmitsEarlier ==
    AxisMade("w") =>
        /\ Ascending(AxisDates)
        /\ \A i \in 1..(Len(D) - 1) : Rollover(i) => InSeq(AxisDates, D[i])
        /\ \A k \in 1..Len(AxisDates) :
              \E i \in 1..(Len(D) - 1) : Rollover(i) /\ AxisDates[k] = D[i]

\* C12 amended: the weekly axis is exactly the D[i+1], the later day, of the
\* adjacent pairs (D[i], D[i+1]) at which a week rollover is detected: the
\* first trading days after a week boundary, in ascending order.
C12_WeeklyEmitsLater ==
    AxisMade("w") =>
        /\ Ascending(AxisDates)
        /\ \A i \in 1..(Len(D) - 1) : Rollover(i) => InSeq(AxisDates, D[i + 1])
        /\ \A k \in 1..Len(AxisDates) :
              \E i \in 1..(Len(D) - 1) : Rollover(i) /\ AxisDates[k] = D[i + 1]

\* C12 witness: a weekly axis with two entries was made
C12_Witness == AxisMade("w") /\ Len(AxisDates) >= 2

\* the calendar week (Monday to Sunday) a date lies in, counted from the epoch
WeekOf(date) == (DaysFromCivil(date) + 3) \div 7

\* the adjacent pair (D[i], D[i+1]) lies in two calendar weeks
WeekBoundary(i) == WeekOf(D[i]) # WeekOf(D[i + 1])

\* C13: every adjacent pair of trading days in different calendar weeks gives
\* exactly one entry of the weekly axis, also when a closure makes the later
\* day fall on the same or a later weekday than the earlier one; a pair within
\* one calendar week gives none.
C13_EveryWeekBoundary ==
    AxisMade("w") =>
        /\ Len(AxisDates) = Cardinality({i \in 1..(Len(D) - 1) : WeekBoundary(i)})
        /\ \A i \in 1..(Len(D) - 1) :
              WeekBoundary(i) => InSeq(AxisDates, D[i]) \/ InSeq(AxisDates, D[i + 1])
        /\ \A k \in 1..Len(AxisDates) :
              \E i \in 1..(Len(D) - 1) :
                  WeekBoundary(i) /\ AxisDates[k] \in {D[i], D[i + 1]}

\* the adjacent pair (D[i], D[i+1]) lies in two calendar months
MonthBoundary(i) == D[i][2] # D[i + 1][2]

\* C14: the monthly axis is exactly the ascending sequence of the D[i+1] of the
\* adjacent pairs (D[i], D[i+1]) whose month numbers differ: one entry for each
\* month transition and no other.
C14_MonthlyEmitsLater ==
    AxisMade("m") =>
        /\ Ascending(AxisDates)
        /\ Len(AxisDates) = Cardinality({i \in 1..(Len(D) - 1) : MonthBoundary(i)})
        /\ \A i \in 1..(Len(D) - 1) : MonthBoundary(i) => InSeq(AxisDates, D[i + 1])
        /\ \A k \in 1..Len(AxisDates) :
              \E i \in 1..(Len(D) - 1) : MonthBoundary(i) /\ AxisDates[k] = D[i + 1]

\* C14 witness: a monthly axis with two entries was made from a range that goes
\* on after the second month transition
C14_Witness ==
    /\ AxisMade("m")
    /\ Len(AxisDates) >= 2
    /\ AxisDates[Len(AxisDates)] # D[Len(D)]

\* the last adjacent pair of D is one the reduction of the interval emits for
LastPairEmits ==
    IF params.interval = "w" THEN Rollover(Len(D) - 1) ELSE MonthBoundary(Len(D) - 1)

\* C15: for the weekly and the monthly interval, the last element of a daily
\* sequence D of two or more elements is never in the axis.
C15_LastNeverEmitted ==
    ((AxisMade("w") \/ AxisMade("m")) /\ Len(D) >= 2) =>
        ~InSeq(AxisDates, D[Len(D)])

\* C15 amended: for the weekly and the monthly interval, the first element of
\* a daily sequence D of two or more elements is never in the axis; the last
\* element is in it exactly when the last adjacent pair of D is a detected week
\* rollover (weekly) or a month transition (monthly).
C15_FirstNeverEmitted ==
    ((AxisMade("w") \/ AxisMade("m")) /\ Len(D) >= 2) =>
        /\ ~InSeq(AxisDates, D[1])
        /\ InSeq(AxisDates, D[Len(D)]) <=> LastPairEmits

\* C15 witness: a weekly axis of two entries was made whose last entry is the
\* last day of D
C15_Witness ==
    /\ AxisMade("w")
    /\ Len(AxisDates) >= 2
    /\ AxisDates[Len(AxisDates)] = D[Len(D)]

(***************************************************************************)
(* Properties of the merge and of the batch's end, under Spec.             *)
(***************************************************************************)
\* the Date column of the evolving table
TableDates ==
    [i \in 1..Len(output_df.rows) |-> output_df.rows[i][IndexOf(output_df.cols, "Date")]]

\* C16: after each left join, whatever series the endpoint returned (one with
\* a repeated date included), the table has exactly one row for each entry of
\* the date axis, in the order of the axis, and the returned table has no more
\* rows than the axis.
C16_OneRowPerAxisDate ==
    /\ pc = "merge" => TableDates = AxisDates
    /\ pc = "returned" =>
          /\ output_df.index = AxisDates
          /\ Len(ret.index) <= Len(AxisDates)

\* C17: however the batch ends, with every fetch succeeding or with a fetch
\* raising, the pool made for it has been closed and joined when the call
\* returns or raises.
C17_PoolJoinedOnExit == (Ended /\ pool # "none") => pool = "joined"

\* C18: with every request answered and the threads scheduled fairly, a call
\* ends, returning a table or raising, whatever the number of tickers (more
\* than 4 included); and it has not ended while a request is outstanding.
C18_CallCompletes == <>Ended /\ [](Ended => inflight = {})

\* C18 witness: a call for more tickers than the pool has workers has ended,
\* after requests of it were sent and answered
C18_Witness ==
    /\ Ended
    /\ Len(args) > PoolWidth
    /\ \E i \in 1..Len(args) : sent[i] # <<>>
    /\ inflight = {}

=============================================================================
